---- MODULE Spec2Model ----
(***************************************************************************)
(* The submission pipeline of wgpu-core's device queue                     *)
(* (wgpu-core/src/device/queue.rs): PendingWrites, Global::queue_write_    *)
(* buffer and Global::queue_submit, together with the collaborators the    *)
(* file calls (resource tracker, life guard, life tracker, swap chain).    *)
(*                                                                         *)
(* Every call of queue_write_buffer and of queue_submit holds the write    *)
(* lock of hub.devices from its first statement to the end of the block    *)
(* that computes `callbacks`, so each call is one atomic step; the map     *)
(* callbacks a submit collects are fired in a later step, after the lock   *)
(* is released.  A panic (panic!, assert!, unwrap) is fatal: the model     *)
(* records it in `failed` and the device takes no further calls.           *)
(***************************************************************************)
EXTENDS Integers, Sequences, FiniteSets, TLC

\* ------------------------------------------------------------------ bounds
MaxSubmit == 2      \* queue_submit calls explored
MaxWrites == 2      \* queue_write_buffer calls explored (staging buffers made)
MaxMaps == 1        \* buffer mapping requests explored
MaxCmdBufs == 2     \* command buffers handed to one queue_submit call
MaxDataWrites == 3  \* queue_write_buffer calls explored by SpecData

\* ------------------------------------------------------------------ domains
BufferIds == {1, 2}
TextureIds == {3}
Resources == BufferIds \cup TextureIds
\* buffer 1 was created with BufferUsage::COPY_DST, buffer 2 without it
CopyDstBuffers == {1}
Offsets == {0, 1, 2}                 \* byte addresses of a buffer
Bytes == {1, 2}                      \* values of the bytes the caller writes
Garbage == {0, 9}                    \* what a read of freed staging memory may give
Usages == {"EMPTY", "COPY_DST", "STORAGE"}
CmdUsages == {"COPY_DST", "STORAGE"}
SwapChainIds == {"sc1", "sc2"}
Threads == {"t1", "t2"}              \* the threads of SpecThreads that call the queue
\* hub.devices, and the storages and the tracker a call locks besides
Locks == {"devices", "swap_chains", "command_buffers", "buffers", "trackers"}
Framebuffers == {"fbo1", "fbo2"}     \* the framebuffers command buffers render to

None == <<>>
Some(x) == <<x>>
IsSome(o) == o # <<>>
Unwrap(o) == o[1]

Max(a, b) == IF a >= b THEN a ELSE b
Range(s) == {s[i] : i \in DOMAIN s}

RECURSIVE SortedSeq(_)
\* the ids of a set in increasing order (a storage is iterated by index)
SortedSeq(S) ==
    IF S = {} THEN <<>>
    ELSE LET m == CHOOSE x \in S : \A y \in S : x <= y
         IN <<m>> \o SortedSeq(S \ {m})

VARIABLES
    submission_index,  \* device.life_guard.submission_index
    pending_writes,    \* device.pending_writes
    temp_suspected,    \* device.temp_suspected
    trackers,          \* device.trackers: the tracked usage of each resource
    resources,         \* the storages: exists, ref (ref_count.is_some()),
                       \*   last_use (life_guard.submission_index), map_state
    swap_chain,        \* the swap chains: acquired_view_id (is_some()),
                       \*   acquired_framebuffers
    active,            \* life tracker: queue of submission records
    signaled,          \* fences the hardware has signaled
    hw_queue,          \* submissions handed to queues[0], not yet executed
    done_fences,       \* fences of executed submissions, signal not yet visible
    hw_log,            \* the fences created, in the order of their submissions
    staging,           \* live staging buffers and the bytes mapped into them
    staging_count,     \* staging buffers created so far
    mem,               \* contents of the buffers on the device
    to_fire,           \* callbacks returned by maintain, not yet fired
    failed,            \* "none", or the panic that ended the program, or
                       \*   "disposed" once the device is torn down
    disposed,          \* what PendingWrites::dispose handed back: the command
                       \*   buffers discarded, the memory blocks freed, the
                       \*   buffers destroyed
    \* history (ghost) variables, read by no action's guard or effect
    mem_direct,        \* contents had every write been applied directly
    writes_log,        \* write calls since the previous queue_submit call
    write_hist,        \* per staging buffer, the write call that created it: the
                       \*   device index at the call and the life guard it advanced
    uses,              \* per resource, the submissions that referenced it
    copy_owner,        \* per staging buffer, the submission that runs its copy
    freed,             \* staging buffers freed
    reaped,            \* indices of the records reaped, in reaping order
    skipped,           \* records a maintenance pass left queued though signaled
    track_log,         \* indices handed to track_submission, in call order
    map_count,         \* per buffer: requests made, callbacks collected, fired
    hw_state,          \* usage each resource is left in by the submitted commands
    last_submit,       \* what the most recent queue_submit call saw and did
                       \*   (maintained: the records its maintenance pass was given)
    \* the calling threads of SpecThreads, where a call is a sequence of steps
    pc,                \* per thread, the statement it is at
    held,              \* per thread, the lock guards it holds
    frame              \* per thread, the locals of its call

vars == <<submission_index, pending_writes, temp_suspected, trackers, resources,
          swap_chain, active, signaled, hw_queue, done_fences, staging, staging_count, mem,
          to_fire, failed, mem_direct, writes_log, uses, copy_owner, freed,
          reaped, skipped, hw_log, track_log, map_count, hw_state, last_submit,
          write_hist, pc, held, frame, disposed>>

threadVars == <<pc, held, frame>>

\* ------------------------------------------------------------------ PendingWrites
\* PendingWrites::new
PendingWritesNew == [command_buffer |-> None, temp_buffers |-> <<>>]

\* dispose with a bug: the temp buffers are dropped without being freed
disposeCommandBufferOnly(pw) ==
    [discarded |-> IF IsSome(pw.command_buffer) THEN <<Unwrap(pw.command_buffer)>>
                   ELSE <<>>,
     freed |-> <<>>, destroyed |-> <<>>]

\* PendingWrites::dispose: discard_internal for the open command buffer, then
\* mem_allocator.free and destroy_buffer for every temp buffer
dispose(pw) ==
    [discarded |-> IF IsSome(pw.command_buffer) THEN <<Unwrap(pw.command_buffer)>>
                   ELSE <<>>,
     freed |-> pw.temp_buffers, destroyed |-> pw.temp_buffers]

\* history: nothing submitted yet
NoSubmit ==
    [index |-> 0, ids |-> <<>>, had_pending |-> FALSE, refs_active |-> {},
     refs_waiting |-> {}, refs_dropped |-> {}, warned |-> {},
     submitted |-> FALSE, command_buffers |-> <<>>, signal_semaphores |-> <<>>,
     suspected |-> <<>>, sync_ok |-> TRUE, maintained |-> <<>>]

Init ==
    /\ submission_index = 0
    /\ pending_writes = PendingWritesNew
    /\ temp_suspected = <<>>
    /\ trackers = [r \in Resources |-> "EMPTY"]
    /\ resources = [r \in Resources |->
                      [exists |-> TRUE, ref |-> TRUE, last_use |-> 0,
                       map_state |-> "Idle"]]
    /\ swap_chain = [sc \in SwapChainIds |->
                       [acquired_view_id |-> FALSE, acquired_framebuffers |-> <<>>]]
    /\ active = <<>>
    /\ signaled = {}
    /\ hw_queue = <<>>
    /\ done_fences = {}
    /\ staging = <<>>
    /\ staging_count = 0
    /\ mem = [b \in BufferIds |-> [o \in Offsets |-> 0]]
    /\ to_fire = <<>>
    /\ failed = "none"
    /\ disposed = [discarded |-> <<>>, freed |-> <<>>, destroyed |-> <<>>]
    /\ mem_direct = [b \in BufferIds |-> [o \in Offsets |-> 0]]
    /\ writes_log = <<>>
    /\ write_hist = <<>>
    /\ uses = [r \in Resources |-> {}]
    /\ copy_owner = <<>>
    /\ freed = {}
    /\ reaped = <<>>
    /\ skipped = {}
    /\ hw_log = <<>>
    /\ track_log = <<>>
    /\ map_count = [b \in BufferIds |-> [requested |-> 0, collected |-> 0, fired |-> 0]]
    /\ hw_state = [r \in Resources |-> "EMPTY"]
    /\ last_submit = NoSubmit
    /\ pc = [t \in Threads |-> "idle"]
    /\ held = [t \in Threads |-> {}]
    /\ frame = [t \in Threads |-> <<>>]

\* ------------------------------------------------------------------ collaborators
\* TrackerSet::use_replace: the transition, if the tracked state changes
use_replace(tr, id, new_state) ==
    [trackers |-> [tr EXCEPT ![id] = new_state],
     transition |-> IF tr[id] # new_state
                      THEN Some([target |-> id, from |-> tr[id], to |-> new_state])
                      ELSE None]

\* LifeGuard::use_at: stores the index; the result is ref_count.is_some()
use_at(res, id, index) == [res EXCEPT ![id].last_use = index]

\* ------------------------------------------------------------------ queue_write_buffer
\* WriteUseIndex with a bug: the write is marked with the last submission
WriteUseLastIndex(last_submit_index) == last_submit_index

\* the submission a deferred write is marked with
WriteUseIndex(last_submit_index) == last_submit_index + 1

\* TakeOrAllocate with a bug: a fresh command buffer for every write
AllocateAlways(pw) == <<>>

\* the open command buffer, or a fresh one from allocate_internal
TakeOrAllocate(pw) ==
    IF IsSome(pw.command_buffer) THEN Unwrap(pw.command_buffer) ELSE <<>>

\* BufferCopy with a bug: the destination offset is not passed on
BufferCopyAtStart(buffer_offset, data) ==
    [src |-> 0, dst |-> 0, size |-> Len(data)]

\* hal::command::BufferCopy of one write
BufferCopy(buffer_offset, data) ==
    [src |-> 0, dst |-> buffer_offset, size |-> Len(data)]

\* WriteBarriers with a bug: the destination's transition is not chained
WriteBarriersStagingOnly(src_raw, transition) ==
    <<[kind |-> "staging", target |-> src_raw,
       from |-> "HOST_WRITE", to |-> "TRANSFER_READ"]>>

\* the barriers recorded ahead of the copy: the staging buffer's, chained with
\* the destination's transition when use_replace returned one
WriteBarriers(src_raw, transition) ==
    <<[kind |-> "staging", target |-> src_raw,
       from |-> "HOST_WRITE", to |-> "TRANSFER_READ"]>>
    \o (IF IsSome(transition)
          THEN <<[kind |-> "resource", target |-> Unwrap(transition).target,
                  from |-> Unwrap(transition).from, to |-> Unwrap(transition).to]>>
          ELSE <<>>)

\* PushWrite with a bug: the staging buffer is not kept
PushWriteCommandOnly(pw, comb, src_raw) ==
    [command_buffer |-> Some(comb), temp_buffers |-> pw.temp_buffers]

\* history: the life guard a write call advances, and the index it stores
WriteGuard(buffer_id, last_submit_index) ==
    [object |-> <<"buffer", buffer_id>>, index |-> WriteUseIndex(last_submit_index)]

\* the state a write leaves in pending_writes
PushWrite(pw, comb, src_raw) ==
    [command_buffer |-> Some(comb),
     temp_buffers |-> Append(pw.temp_buffers, src_raw)]

lifeVars == <<active, signaled, hw_queue, done_fences, to_fire>>
ghostLife == <<freed, reaped, skipped, hw_log, track_log, map_count, copy_owner>>

QueueWriteBuffer(buffer_id, buffer_offset, data) ==
    /\ failed = "none"
    /\ resources[buffer_id].exists /\ resources[buffer_id].ref
    /\ LET ur == use_replace(trackers, buffer_id, "COPY_DST")
           src_raw == staging_count + 1
           region == BufferCopy(buffer_offset, data)
           comb == TakeOrAllocate(pending_writes) \o
                   << [op |-> "pipeline_barrier",
                       barriers |-> WriteBarriers(src_raw, ur.transition)],
                      [op |-> "copy_buffer", src |-> src_raw, dst |-> buffer_id,
                       region |-> region] >>
       IN /\ trackers' = ur.trackers
          /\ IF buffer_id \notin CopyDstBuffers
               THEN \* assert!(dst.usage.contains(COPY_DST))
                    /\ failed' = "write_usage"
                    /\ UNCHANGED <<resources, staging, staging_count,
                                   pending_writes, writes_log, write_hist>>
               ELSE /\ failed' = failed
                    /\ resources' = use_at(resources, buffer_id,
                                           WriteUseIndex(submission_index))
                    /\ staging' = (src_raw :> data) @@ staging
                    /\ staging_count' = staging_count + 1
                    /\ pending_writes' = PushWrite(pending_writes, comb, src_raw)
                    /\ writes_log' = Append(writes_log,
                                            [dst |-> buffer_id, offset |-> buffer_offset,
                                             data |-> data])
                    /\ write_hist' = Append(write_hist,
                                            [at |-> submission_index, dst |-> buffer_id,
                                             src |-> src_raw,
                                             use_at |-> WriteGuard(buffer_id,
                                                                   submission_index)])
    /\ UNCHANGED <<submission_index, temp_suspected, swap_chain, mem, mem_direct,
                   uses, hw_state, last_submit>>
    /\ UNCHANGED lifeVars
    /\ UNCHANGED ghostLife
    /\ UNCHANGED threadVars
    /\ UNCHANGED disposed

\* ------------------------------------------------------------------ life tracker
\* LifeTracker::track_submission: a new record at the tail of the queue
track_submission(act, index, fence, suspected, temp_buffers) ==
    Append(act, [index |-> index, fence |-> fence, suspected |-> suspected,
                 temp_buffers |-> temp_buffers])

\* a suspected resource is destroyed when a record is reaped if nothing holds
\* it and no later submission references it
Destroyed(res, rec) ==
    {r \in Range(rec.suspected) :
        res[r].exists /\ ~res[r].ref /\ res[r].last_use <= rec.index}

\* the buffers whose mapping a reaped record resolves
ReadyToMap(res, rec) ==
    {b \in BufferIds :
        res[b].exists /\ res[b].map_state = "Waiting" /\ res[b].last_use <= rec.index}

\* reaping of one record: its temp buffers are freed, its suspected resources
\* destroyed, the mappings it resolves performed and their callbacks collected
ReapRecord(lt, rec) ==
    LET gone == Destroyed(lt.resources, rec)
        res1 == [r \in Resources |->
                   IF r \in gone THEN [lt.resources[r] EXCEPT !.exists = FALSE]
                   ELSE lt.resources[r]]
        ready == ReadyToMap(res1, rec)
    IN [active |-> Tail(lt.active),
        resources |-> [r \in Resources |->
                         IF r \in ready THEN [res1[r] EXCEPT !.map_state = "Active"]
                         ELSE res1[r]],
        staging |-> [s \in DOMAIN lt.staging \ Range(rec.temp_buffers) |-> lt.staging[s]],
        freed |-> lt.freed \cup Range(rec.temp_buffers),
        reaped |-> Append(lt.reaped, rec.index),
        ready |-> lt.ready \o SortedSeq(ready)]

\* HeadDone with a bug: the pass reaps whenever some queued fence is signaled
HeadDoneAnySignaled(act, sig) ==
    act # <<>> /\ \E i \in DOMAIN act : act[i].fence \in sig

\* whether maintain reaps the head of the queue
HeadDone(act, sig) == act # <<>> /\ Head(act).fence \in sig

RECURSIVE triage_submissions(_, _)
\* while the head's fence is signaled: reap it, pop it, repeat
triage_submissions(lt, sig) ==
    IF HeadDone(lt.active, sig)
      THEN triage_submissions(ReapRecord(lt, Head(lt.active)), sig)
      ELSE lt

\* Device::maintain(force_wait = false): one non-blocking maintenance pass
maintain(act, res, stg, fr, rp, sig) ==
    triage_submissions([active |-> act, resources |-> res, staging |-> stg,
                        freed |-> fr, reaped |-> rp, ready |-> <<>>], sig)

\* history: the records a pass leaves in the queue although their fence is signaled
LeftSignaled(act, sig) == {act[i].index : i \in {j \in DOMAIN act : act[j].fence \in sig}}

\* history: map_count after the callbacks `ready` were collected
Collected(mc, ready) ==
    [b \in BufferIds |->
        [mc[b] EXCEPT !.collected = @ + Cardinality({i \in DOMAIN ready : ready[i] = b})]]

\* ------------------------------------------------------------------ queue_submit
\* the command buffers a caller can have recorded: the resources its tracker
\* lists, the usage it expects them in on entry and leaves them in, and
\* the swap chain whose image it renders to, with the framebuffer it made
CommandBuffers ==
    [used : (SUBSET Resources) \ {{}}, first : CmdUsages, last : CmdUsages,
     used_swap_chain : {None} \cup {Some(x) : x \in SwapChainIds \X Framebuffers}]

Cmd(used, first, last) ==
    [used |-> used, first |-> first, last |-> last, used_swap_chain |-> None]

\* the command buffers over the buffers that the callers of Spec have recorded
BufferCommands ==
    {Cmd({1}, "COPY_DST", "STORAGE"), Cmd({1}, "STORAGE", "STORAGE"),
     Cmd({2}, "STORAGE", "STORAGE"), Cmd({1, 2}, "STORAGE", "STORAGE")}

\* ClearSuspected with a bug: the list of the previous call is kept
KeepSuspected(suspected) == suspected

\* device.temp_suspected.clear()
ClearSuspected(suspected) == <<>>

\* pending_writes.command_buffer.take(), finished
TakePending(pw) == pw.command_buffer

\* SubmitIndex with a bug: the value before the increment is used
SubmitIndexStale(index) == index

\* 1 + submission_index.fetch_add(1)
SubmitIndex(index) == 1 + index

\* UseSwapChain with a bug: the semaphore is pushed for every command buffer
UseSwapChainAlwaysSignal(st, comb) ==
    IF ~IsSome(comb.used_swap_chain) THEN st
    ELSE LET sc_id == Unwrap(comb.used_swap_chain)[1]
             fbo == Unwrap(comb.used_swap_chain)[2]
         IN IF ~st.swap_chain[sc_id].acquired_view_id
              THEN [st EXCEPT !.failed = "swap_chain_output_dropped"]
              ELSE [st EXCEPT
                      !.signal = Append(@, sc_id),
                      !.swap_chain[sc_id].acquired_framebuffers = Append(@, fbo)]

\* the swap chain step of one command buffer
UseSwapChain(st, comb) ==
    IF ~IsSome(comb.used_swap_chain) THEN st
    ELSE LET sc_id == Unwrap(comb.used_swap_chain)[1]
             fbo == Unwrap(comb.used_swap_chain)[2]
             sc == st.swap_chain[sc_id]
         IN IF ~sc.acquired_view_id
              THEN [st EXCEPT !.failed = "swap_chain_output_dropped"]
              ELSE [st EXCEPT
                      !.signal = IF sc.acquired_framebuffers = <<>>
                                   THEN Append(@, sc_id) ELSE @,
                      !.swap_chain[sc_id].acquired_framebuffers = Append(@, fbo)]

\* UnmapsDropped with a bug: the test is for a mapping still pending
UnmapsDroppedWaiting(buf) == ~buf.ref /\ buf.map_state = "Waiting"

\* a dropped buffer that is still mapped is unmapped, with a warning
UnmapsDropped(buf) == ~buf.ref /\ buf.map_state = "Active"

\* PendingMapping with a bug: the test is for a completed mapping
PendingMappingActive(buf) == buf.map_state = "Active"

\* a buffer the submit refuses
PendingMapping(buf) == buf.map_state = "Waiting"

\* device::unmap_buffer
unmap_buffer(res, id) == [res EXCEPT ![id].map_state = "Idle"]

\* temp_suspected after use_at returned `has_ref` for resource id
PushSuspected(suspected, id, has_ref) ==
    IF ~has_ref THEN Append(suspected, id) ELSE suspected

RECURSIVE UpdateBuffers(_, _, _)
\* for id in comb.trackers.buffers.used()
UpdateBuffers(st, ids, submit_index) ==
    IF ids = <<>> \/ st.failed # "none" THEN st
    ELSE LET id == Head(ids)
             buf == st.resources[id]
         IN IF PendingMapping(buf)
              THEN [st EXCEPT !.failed = "pending_mapping"]
              ELSE LET res1 == use_at(st.resources, id, submit_index)
                       unmap == UnmapsDropped(buf)
                   IN UpdateBuffers(
                        [st EXCEPT
                           !.resources = IF unmap THEN unmap_buffer(res1, id) ELSE res1,
                           !.warned = IF unmap THEN @ \cup {id} ELSE @,
                           !.temp_suspected = PushSuspected(@, id, buf.ref)],
                        Tail(ids), submit_index)

RECURSIVE UpdateTextures(_, _, _)
\* for id in comb.trackers.textures.used(), and the other categories alike
UpdateTextures(st, ids, submit_index) ==
    IF ids = <<>> \/ st.failed # "none" THEN st
    ELSE LET id == Head(ids)
         IN UpdateTextures(
              [st EXCEPT
                 !.resources = use_at(st.resources, id, submit_index),
                 !.temp_suspected = PushSuspected(@, id, st.resources[id].ref)],
              Tail(ids), submit_index)

\* CommandBuffer::insert_barriers: the barriers that move every resource of the
\* command buffer from the device's tracked state to the state it expects, and
\* the tracked states afterwards
insert_barriers(tr, comb) ==
    LET need == SortedSeq({r \in comb.used : tr[r] # comb.first})
    IN [barriers |-> [i \in DOMAIN need |->
                        [kind |-> "resource", target |-> need[i],
                         from |-> tr[need[i]], to |-> comb.first]],
        trackers |-> [r \in Resources |->
                        IF r \in comb.used THEN comb.last ELSE tr[r]]]

\* Stitch with a bug: the transition command buffer is pushed at the end
StitchAfter(raw, transit) == raw \o <<transit>>

\* comb.raw.insert(0, transit)
Stitch(raw, transit) == <<transit>> \o raw

\* one iteration of `for &cmb_id in command_buffer_ids`
ProcessCommandBuffer(st, comb, submit_index) ==
    LET s1 == UseSwapChain(st, comb)
        s2 == UpdateBuffers(s1, SortedSeq(comb.used \cap BufferIds), submit_index)
        s3 == UpdateTextures(s2, SortedSeq(comb.used \cap TextureIds), submit_index)
        ib == insert_barriers(s3.trackers, comb)
        transit == [kind |-> "transit", barriers |-> ib.barriers]
        raw == <<[kind |-> "body", of |-> comb]>>
    IN IF s3.failed # "none" THEN s3
       ELSE [s3 EXCEPT !.trackers = ib.trackers,
                       !.raws = Append(@, Stitch(raw, transit))]

RECURSIVE ProcessCommandBuffers(_, _, _)
ProcessCommandBuffers(st, combs, submit_index) ==
    IF combs = <<>> \/ st.failed # "none" THEN st
    ELSE ProcessCommandBuffers(ProcessCommandBuffer(st, Head(combs), submit_index),
                               Tail(combs), submit_index)

RECURSIVE Flatten(_)
\* flat_map over the command buffers' raw lists
Flatten(raws) == IF raws = <<>> THEN <<>> ELSE Head(raws) \o Flatten(Tail(raws))

\* hal::queue::Submission: the pending writes first, then every raw list
Submission(pending_write_command_buffer, raws, signal) ==
    [command_buffers |->
        (IF IsSome(pending_write_command_buffer)
           THEN <<[kind |-> "writes", cmds |-> Unwrap(pending_write_command_buffer)]>>
           ELSE <<>>) \o Flatten(raws),
     signal_semaphores |-> signal]

\* DrainTempBuffers with a bug: the record is handed no temp buffers
DrainNothing(pw) == <<>>

\* device.pending_writes.temp_buffers.drain(..): what the record takes
DrainTempBuffers(pw) == pw.temp_buffers

\* ------------------------------------------------------------------ history
RECURSIVE ReplayBarriers(_, _)
\* the usage states after a list of barriers, and whether each barrier's
\* source state was the state its target was in
ReplayBarriers(hs, bars) ==
    IF bars = <<>> THEN hs
    ELSE LET b == Head(bars)
         IN IF b.kind = "staging" THEN ReplayBarriers(hs, Tail(bars))
            ELSE ReplayBarriers(
                   [state |-> [hs.state EXCEPT ![b.target] = b.to],
                    ok |-> hs.ok /\ hs.state[b.target] = b.from],
                   Tail(bars))

RECURSIVE ReplayCommands(_, _)
ReplayCommands(hs, cmds) ==
    IF cmds = <<>> THEN hs
    ELSE LET c == Head(cmds)
         IN IF c.op = "pipeline_barrier"
              THEN ReplayCommands(ReplayBarriers(hs, c.barriers), Tail(cmds))
              ELSE ReplayCommands(
                     [hs EXCEPT !.ok = @ /\ hs.state[c.dst] = "COPY_DST"], Tail(cmds))

RECURSIVE Replay(_, _)
\* the usage states the hardware sees running `cbs` in order
Replay(hs, cbs) ==
    IF cbs = <<>> THEN hs
    ELSE LET c == Head(cbs)
         IN CASE c.kind = "writes" -> Replay(ReplayCommands(hs, c.cmds), Tail(cbs))
              [] c.kind = "transit" -> Replay(ReplayBarriers(hs, c.barriers), Tail(cbs))
              [] OTHER ->
                   Replay([state |-> [r \in Resources |->
                                        IF r \in c.of.used THEN c.of.last ELSE hs.state[r]],
                           ok |-> hs.ok /\ \A r \in c.of.used : hs.state[r] = c.of.first],
                          Tail(cbs))

\* the copy commands of a pending-writes command buffer
Copies(cmds) == SelectSeq(cmds, LAMBDA c : c.op = "copy_buffer")

\* the resources a list of caller command buffers references
UsedBy(combs) == UNION {combs[i].used : i \in DOMAIN combs}

\* ------------------------------------------------------------------ actions
devVars == <<submission_index, pending_writes, temp_suspected, trackers, disposed>>
hwVars == <<hw_queue, done_fences, hw_log, mem, mem_direct>>
histVars == <<writes_log, uses, copy_owner, track_log, hw_state, last_submit,
              write_hist>>

\* history: what a queue_submit call was handed and found
Seen(command_buffer_ids, submit_index, st) ==
    [index |-> submit_index, ids |-> command_buffer_ids,
     had_pending |-> IsSome(pending_writes.command_buffer),
     refs_active |-> {b \in UsedBy(command_buffer_ids) \cap BufferIds :
                         resources[b].map_state = "Active"},
     refs_waiting |-> {b \in UsedBy(command_buffer_ids) \cap BufferIds :
                         resources[b].map_state = "Waiting"},
     refs_dropped |-> {b \in UsedBy(command_buffer_ids) : ~resources[b].ref},
     warned |-> st.warned,
     suspected |-> st.temp_suspected]

\* the call panicked in its loop: the lock guards unwind, the command buffer
\* taken from pending_writes is dropped with the stack frame
SubmitPanics(command_buffer_ids, submit_index, st) ==
    /\ pending_writes' = [pending_writes EXCEPT !.command_buffer = None]
    /\ resources' = st.resources
    /\ last_submit' = Seen(command_buffer_ids, submit_index, st) @@
          [submitted |-> FALSE, command_buffers |-> <<>>,
           signal_semaphores |-> <<>>, sync_ok |-> TRUE, maintained |-> <<>>]
    /\ UNCHANGED <<active, staging, to_fire, hw_queue, hw_log, uses, copy_owner,
                   freed, reaped, skipped, track_log, map_count, hw_state,
                   writes_log>>

\* the call reaches the hardware queue, the maintenance pass and the life tracker
SubmitReturns(command_buffer_ids, submit_index, st, pending_write_command_buffer, fence, submission, queue, lt, copies, replay) ==
    /\ pending_writes' = [command_buffer |-> None, temp_buffers |-> <<>>]
    /\ writes_log' = <<>>
    /\ hw_queue' = Append(hw_queue,
                          [fence |-> fence,
                           writes |-> pending_write_command_buffer,
                           signal_semaphores |-> submission.signal_semaphores,
                           calls |-> writes_log])
    /\ hw_log' = Append(hw_log, fence)
    /\ resources' = lt.resources
    /\ staging' = lt.staging
    /\ to_fire' = to_fire \o lt.ready
    /\ active' = track_submission(lt.active, submit_index, fence,
                                  st.temp_suspected,
                                  DrainTempBuffers(pending_writes))
    /\ freed' = lt.freed
    /\ reaped' = lt.reaped
    /\ skipped' = skipped \cup LeftSignaled(lt.active, signaled)
    /\ map_count' = Collected(map_count, lt.ready)
    /\ track_log' = Append(track_log, submit_index)
    /\ uses' = [r \in Resources |->
                  IF r \in UsedBy(command_buffer_ids)
                     \/ \E i \in DOMAIN copies : copies[i].dst = r
                    THEN uses[r] \cup {submit_index} ELSE uses[r]]
    /\ copy_owner' = [s \in DOMAIN copy_owner \cup
                            {copies[i].src : i \in DOMAIN copies} |->
                        IF s \in DOMAIN copy_owner THEN copy_owner[s]
                        ELSE submit_index]
    /\ hw_state' = replay.state
    /\ last_submit' = Seen(command_buffer_ids, submit_index, st) @@
          [submitted |-> TRUE,
           command_buffers |-> submission.command_buffers,
           signal_semaphores |-> submission.signal_semaphores,
           sync_ok |-> replay.ok,
           maintained |-> [k \in DOMAIN queue |-> queue[k].index]]

QueueSubmit(command_buffer_ids) ==
    /\ failed = "none"
    /\ \A r \in UsedBy(command_buffer_ids) : resources[r].exists
    /\ LET pending_write_command_buffer == TakePending(pending_writes)
           submit_index == SubmitIndex(submission_index)
           fence == Len(hw_log) + 1
           copies == IF IsSome(pending_write_command_buffer)
                       THEN Copies(Unwrap(pending_write_command_buffer)) ELSE <<>>
       IN \E st \in {ProcessCommandBuffers(
                       [resources |-> resources, trackers |-> trackers,
                        temp_suspected |-> ClearSuspected(temp_suspected),
                        swap_chain |-> swap_chain,
                        signal |-> <<>>, raws |-> <<>>, failed |-> "none",
                        warned |-> {}],
                       command_buffer_ids, submit_index)} :
          /\ submission_index' = submit_index
          /\ temp_suspected' = st.temp_suspected
          /\ trackers' = st.trackers
          /\ swap_chain' = st.swap_chain
          /\ failed' = st.failed
          /\ IF st.failed # "none"
               THEN SubmitPanics(command_buffer_ids, submit_index, st)
               ELSE \E submission \in {Submission(pending_write_command_buffer,
                                                  st.raws, st.signal)} :
                    \E queue \in {active} :
                    \E lt \in {maintain(queue, st.resources, staging, freed,
                                        reaped, signaled)} :
                    \E replay \in {Replay([state |-> hw_state, ok |-> TRUE],
                                          submission.command_buffers)} :
                       SubmitReturns(command_buffer_ids, submit_index, st,
                                     pending_write_command_buffer, fence,
                                     submission, queue, lt, copies, replay)
    /\ UNCHANGED <<signaled, done_fences, mem, mem_direct, staging_count, write_hist,
                   disposed>>
    /\ UNCHANGED threadVars

\* one copy_buffer command run by the hardware; freed staging memory reads as g
ExecCopy(m, c, stg, g) ==
    [m EXCEPT ![c.dst] =
        [o \in Offsets |->
            IF o >= c.region.dst /\ o < c.region.dst + c.region.size
              THEN IF c.src \in DOMAIN stg
                     THEN stg[c.src][c.region.src + (o - c.region.dst) + 1]
                     ELSE g
              ELSE @[o]]]

RECURSIVE ExecCopies(_, _, _, _)
ExecCopies(m, cs, stg, g) ==
    IF cs = <<>> THEN m ELSE ExecCopies(ExecCopy(m, Head(cs), stg, g), Tail(cs), stg, g)

\* history: a write applied directly to the destination
DirectWrite(m, w) ==
    [m EXCEPT ![w.dst] =
        [o \in Offsets |->
            IF o >= w.offset /\ o < w.offset + Len(w.data)
              THEN w.data[o - w.offset + 1] ELSE @[o]]]

RECURSIVE DirectWrites(_, _)
DirectWrites(m, ws) ==
    IF ws = <<>> THEN m ELSE DirectWrites(DirectWrite(m, Head(ws)), Tail(ws))

\* the hardware queue runs its oldest submission
HwExecute ==
    /\ hw_queue # <<>>
    /\ LET sub == Head(hw_queue)
           cs == IF IsSome(sub.writes) THEN Copies(Unwrap(sub.writes)) ELSE <<>>
       IN /\ \E g \in Garbage : mem' = ExecCopies(mem, cs, staging, g)
          /\ mem_direct' = DirectWrites(mem_direct, sub.calls)
          /\ done_fences' = done_fences \cup {sub.fence}
          /\ hw_queue' = Tail(hw_queue)
    /\ UNCHANGED devVars
    /\ UNCHANGED threadVars
    /\ UNCHANGED histVars
    /\ UNCHANGED <<resources, swap_chain, active, signaled, hw_log, staging,
                   staging_count, to_fire, failed, freed, reaped, skipped, map_count>>

\* get_fence_status starts to answer true for fence f
FenceSignal(f) ==
    /\ f \in done_fences
    /\ done_fences' = done_fences \ {f}
    /\ signaled' = signaled \cup {f}
    /\ UNCHANGED devVars
    /\ UNCHANGED threadVars
    /\ UNCHANGED histVars
    /\ UNCHANGED <<resources, swap_chain, active, hw_queue, hw_log, mem, mem_direct,
                   staging, staging_count, to_fire, failed, freed, reaped, skipped,
                   map_count>>

\* a maintenance pass outside queue_submit (the device is polled)
Maintain ==
    /\ failed = "none"
    /\ active # <<>>
    /\ \E lt \in {maintain(active, resources, staging, freed, reaped, signaled)} :
          /\ active' = lt.active
          /\ resources' = lt.resources
          /\ staging' = lt.staging
          /\ to_fire' = to_fire \o lt.ready
          /\ freed' = lt.freed
          /\ reaped' = lt.reaped
          /\ skipped' = skipped \cup LeftSignaled(lt.active, signaled)
          /\ map_count' = Collected(map_count, lt.ready)
    /\ UNCHANGED devVars
    /\ UNCHANGED threadVars
    /\ UNCHANGED hwVars
    /\ UNCHANGED histVars
    /\ UNCHANGED <<swap_chain, signaled, staging_count, failed>>

\* fire_map_callbacks, after the locks are released
FireMapCallbacks ==
    /\ failed = "none"
    /\ to_fire # <<>>
    /\ to_fire' = <<>>
    /\ map_count' = [b \in BufferIds |->
                       [map_count[b] EXCEPT !.fired =
                           @ + Cardinality({i \in DOMAIN to_fire : to_fire[i] = b})]]
    /\ UNCHANGED devVars
    /\ UNCHANGED threadVars
    /\ UNCHANGED hwVars
    /\ UNCHANGED histVars
    /\ UNCHANGED <<resources, swap_chain, active, signaled, staging, staging_count,
                   failed, freed, reaped, skipped>>

\* the rest of the application: what it does to the resources between calls
resFrame == <<swap_chain, active, signaled, staging, staging_count, to_fire,
              failed, freed, reaped, skipped>>

MapsRequested == map_count[1].requested + map_count[2].requested

BufferMapAsync(b) ==
    /\ failed = "none"
    /\ MapsRequested < MaxMaps
    /\ resources[b].exists /\ resources[b].ref /\ resources[b].map_state = "Idle"
    /\ resources' = [resources EXCEPT ![b].map_state = "Waiting"]
    /\ map_count' = [map_count EXCEPT ![b].requested = @ + 1]
    /\ UNCHANGED devVars
    /\ UNCHANGED threadVars
    /\ UNCHANGED hwVars
    /\ UNCHANGED histVars
    /\ UNCHANGED resFrame

BufferUnmap(b) ==
    /\ failed = "none"
    /\ resources[b].exists /\ resources[b].ref /\ resources[b].map_state = "Active"
    /\ resources' = [resources EXCEPT ![b].map_state = "Idle"]
    /\ UNCHANGED devVars
    /\ UNCHANGED threadVars
    /\ UNCHANGED hwVars
    /\ UNCHANGED histVars
    /\ UNCHANGED resFrame
    /\ UNCHANGED map_count

\* the application drops its last reference to a resource
ResourceDrop(r) ==
    /\ failed = "none"
    /\ resources[r].exists /\ resources[r].ref
    /\ resources' = [resources EXCEPT ![r].ref = FALSE]
    /\ UNCHANGED devVars
    /\ UNCHANGED threadVars
    /\ UNCHANGED hwVars
    /\ UNCHANGED histVars
    /\ UNCHANGED resFrame
    /\ UNCHANGED map_count

\* the application acquires the next image of a swap chain
SwapChainGetNextTexture(sc_id) ==
    /\ failed = "none"
    /\ ~swap_chain[sc_id].acquired_view_id
    /\ swap_chain' = [swap_chain EXCEPT ![sc_id].acquired_view_id = TRUE]
    /\ UNCHANGED devVars
    /\ UNCHANGED threadVars
    /\ UNCHANGED hwVars
    /\ UNCHANGED histVars
    /\ UNCHANGED <<resources, active, signaled, staging, staging_count, to_fire,
                   failed, freed, reaped, skipped, map_count>>

\* the application presents the image: the view and the framebuffers go
SwapChainPresent(sc_id) ==
    /\ failed = "none"
    /\ swap_chain[sc_id].acquired_view_id
    /\ swap_chain' = [swap_chain EXCEPT
                        ![sc_id] = [acquired_view_id |-> FALSE,
                                    acquired_framebuffers |-> <<>>]]
    /\ UNCHANGED devVars
    /\ UNCHANGED threadVars
    /\ UNCHANGED hwVars
    /\ UNCHANGED histVars
    /\ UNCHANGED <<resources, active, signaled, staging, staging_count, to_fire,
                   failed, freed, reaped, skipped, map_count>>

\* the device is torn down: its pending writes are disposed of (self is moved)
DeviceDispose ==
    /\ failed = "none"
    /\ failed' = "disposed"
    /\ disposed' = dispose(pending_writes)
    /\ staging' = [s \in DOMAIN staging \ Range(dispose(pending_writes).destroyed) |->
                     staging[s]]
    /\ pending_writes' = [command_buffer |-> None, temp_buffers |-> <<>>]
    /\ UNCHANGED <<submission_index, temp_suspected, trackers, resources, swap_chain,
                   active, signaled, staging_count, to_fire, freed, reaped, skipped,
                   map_count>>
    /\ UNCHANGED hwVars
    /\ UNCHANGED histVars
    /\ UNCHANGED threadVars

\* ------------------------------------------------------------------ specification
RECURSIVE SeqsUpTo(_, _)
\* the sequences over S of length at most n
SeqsUpTo(S, n) ==
    IF n = 0 THEN {<<>>}
    ELSE LET shorter == SeqsUpTo(S, n - 1)
         IN shorter \cup {Append(q, x) : q \in {t \in shorter : Len(t) = n - 1}, x \in S}

SubmitLists == SeqsUpTo(BufferCommands, MaxCmdBufs)

\* the buffer the application of Spec drops
Droppable == {2}

Next ==
    \/ /\ staging_count < MaxWrites
       /\ \E b \in BufferIds : QueueWriteBuffer(b, 0, <<1>>)
    \/ /\ submission_index < MaxSubmit
       /\ \E ids \in SubmitLists : QueueSubmit(ids)
    \/ HwExecute
    \/ \E f \in done_fences : FenceSignal(f)
    \/ Maintain
    \/ FireMapCallbacks
    \/ \E b \in BufferIds : BufferMapAsync(b)
    \/ \E b \in BufferIds : BufferUnmap(b)
    \/ \E r \in Droppable : ResourceDrop(r)

Spec == Init /\ [][Next]_vars

\* the deferred writes explored by SpecData: every range of buffer 1 of one or
\* two bytes, with the bytes the caller passes
WriteData == {<<1>>, <<2>>, <<1, 2>>, <<2, 1>>}

DataWrites ==
    {w \in [dst : CopyDstBuffers, offset : Offsets, data : WriteData] :
        w.offset + Len(w.data) - 1 \in Offsets}

DataSubmitLists == {<<>>, <<Cmd({1}, "STORAGE", "STORAGE")>>}

NextData ==
    \/ /\ staging_count < MaxDataWrites
       /\ \E w \in DataWrites : QueueWriteBuffer(w.dst, w.offset, w.data)
    \/ /\ submission_index < MaxSubmit
       /\ \E ids \in DataSubmitLists : QueueSubmit(ids)
    \/ HwExecute
    \/ \E f \in done_fences : FenceSignal(f)
    \/ Maintain

\* the deferred write path alone, with the offsets and the bytes of each write
SpecData == Init /\ [][NextData]_vars

\* the command buffers of SpecFrame: they use buffer 2 and texture 3, and some
\* render to a swap chain
FrameCmd(used, used_swap_chain) ==
    [used |-> used, first |-> "STORAGE", last |-> "STORAGE",
     used_swap_chain |-> used_swap_chain]

FrameCommands ==
    {FrameCmd({2}, None), FrameCmd({2, 3}, None),
     FrameCmd({3}, Some(<<"sc1", "fbo1">>)), FrameCmd({3}, Some(<<"sc1", "fbo2">>)),
     FrameCmd({2}, Some(<<"sc2", "fbo1">>))}

FrameSubmitLists == SeqsUpTo(FrameCommands, MaxCmdBufs)

\* the resources the application of SpecFrame drops
FrameDroppable == {2, 3}

NextFrame ==
    \/ /\ submission_index < MaxSubmit
       /\ \E ids \in FrameSubmitLists : QueueSubmit(ids)
    \/ HwExecute
    \/ \E f \in done_fences : FenceSignal(f)
    \/ Maintain
    \/ \E r \in FrameDroppable : ResourceDrop(r)
    \/ \E sc_id \in SwapChainIds : SwapChainGetNextTexture(sc_id)
    \/ \E sc_id \in SwapChainIds : SwapChainPresent(sc_id)

\* submissions of command buffers that use dropped resources of two
\* categories and render to swap chains
SpecFrame == Init /\ [][NextFrame]_vars

NextDispose ==
    \/ /\ staging_count < MaxDataWrites
       /\ QueueWriteBuffer(1, 0, <<1>>)
    \/ /\ submission_index < MaxSubmit
       /\ \E ids \in DataSubmitLists : QueueSubmit(ids)
    \/ HwExecute
    \/ \E f \in done_fences : FenceSignal(f)
    \/ Maintain
    \/ DeviceDispose

\* deferred writes and submissions on a device that is torn down at any time
SpecDispose == Init /\ [][NextDispose]_vars

\* ------------------------------------------------------------------ threads
\* The calls again, statement by statement, made by threads that take the
\* lock guards the code takes.  The history variables last_submit, hw_state
\* and to_fire belong to the atomic calls and are left alone here.

\* CanAcquire with a bug: the lock excludes nobody
CanAcquireAlways(h, lock) == TRUE

\* hub.devices.write(): the guard is granted when no thread holds the lock
CanAcquire(h, lock) == \A u \in Threads : lock \notin h[u]

\* GuardsAfterBlock with a bug: the guards outlive the block
GuardsKept(locks) == locks

\* the guards left when the block that computes `callbacks` has ended
GuardsAfterBlock(locks) == {}

\* the frame is left alone by every variable the statements of a call do not touch
callFrame == <<swap_chain, signaled, done_fences, mem, mem_direct, to_fire,
               hw_state, last_submit, disposed>>

\* queue_write_buffer, lines 59-92: the guards, use_replace, the assert, use_at
ThreadWriteUse(t, buffer_id, buffer_offset, data) ==
    /\ failed = "none"
    /\ pc[t] = "idle"
    /\ CanAcquire(held, "devices")
    /\ resources[buffer_id].exists /\ resources[buffer_id].ref
    /\ held' = [held EXCEPT ![t] = {"devices", "buffers", "trackers"}]
    /\ LET ur == use_replace(trackers, buffer_id, "COPY_DST")
       IN /\ trackers' = ur.trackers
          /\ IF buffer_id \notin CopyDstBuffers
               THEN /\ failed' = "write_usage"
                    /\ UNCHANGED <<resources, pc, frame>>
               ELSE /\ failed' = failed
                    /\ resources' = use_at(resources, buffer_id,
                                           WriteUseIndex(submission_index))
                    /\ pc' = [pc EXCEPT ![t] = "write_staging"]
                    /\ frame' = [frame EXCEPT ![t] =
                                   [buffer_id |-> buffer_id,
                                    buffer_offset |-> buffer_offset, data |-> data,
                                    transition |-> ur.transition,
                                    at |-> submission_index,
                                    use_at |-> WriteGuard(buffer_id, submission_index)]]
    /\ UNCHANGED <<submission_index, pending_writes, temp_suspected, active, hw_queue,
                   staging, staging_count, writes_log, uses, copy_owner, freed,
                   reaped, skipped, hw_log, track_log, map_count, write_hist>>
    /\ UNCHANGED callFrame

\* queue_write_buffer, lines 94-141: the staging buffer, filled, and the
\* command buffer taken from pending_writes or allocated
ThreadWriteTake(t) ==
    /\ failed = "none"
    /\ pc[t] = "write_staging"
    /\ LET src_raw == staging_count + 1
       IN /\ staging' = (src_raw :> frame[t].data) @@ staging
          /\ staging_count' = staging_count + 1
          /\ frame' = [frame EXCEPT ![t] =
                         @ @@ [src_raw |-> src_raw,
                               comb |-> TakeOrAllocate(pending_writes)]]
          /\ write_hist' = Append(write_hist,
                                  [at |-> frame[t].at, dst |-> frame[t].buffer_id,
                                   src |-> src_raw, use_at |-> frame[t].use_at])
    /\ pending_writes' = [pending_writes EXCEPT !.command_buffer = None]
    /\ pc' = [pc EXCEPT ![t] = "write_record"]
    /\ UNCHANGED <<submission_index, temp_suspected, trackers, resources, active,
                   hw_queue, failed, writes_log, uses, copy_owner, freed, reaped,
                   skipped, hw_log, track_log, map_count, held>>
    /\ UNCHANGED callFrame

\* queue_write_buffer, lines 142-163: the barrier and the copy are recorded,
\* the staging buffer and the command buffer go to pending_writes, the guards
\* are dropped
ThreadWriteRecord(t) ==
    /\ failed = "none"
    /\ pc[t] = "write_record"
    /\ LET f == frame[t]
           comb == f.comb \o
                   << [op |-> "pipeline_barrier",
                       barriers |-> WriteBarriers(f.src_raw, f.transition)],
                      [op |-> "copy_buffer", src |-> f.src_raw, dst |-> f.buffer_id,
                       region |-> BufferCopy(f.buffer_offset, f.data)] >>
       IN /\ pending_writes' = PushWrite(pending_writes, comb, f.src_raw)
          /\ writes_log' = Append(writes_log,
                                  [dst |-> f.buffer_id, offset |-> f.buffer_offset,
                                   data |-> f.data])
    /\ held' = [held EXCEPT ![t] = {}]
    /\ pc' = [pc EXCEPT ![t] = "idle"]
    /\ frame' = [frame EXCEPT ![t] = <<>>]
    /\ UNCHANGED <<submission_index, temp_suspected, trackers, resources, active,
                   hw_queue, staging, staging_count, failed, uses, copy_owner, freed,
                   reaped, skipped, hw_log, track_log, map_count, write_hist>>
    /\ UNCHANGED callFrame

\* queue_submit, lines 170-190: the device guard, the pending command buffer
\* taken, temp_suspected cleared, the submission index
ThreadSubmitTake(t, command_buffer_ids) ==
    /\ failed = "none"
    /\ pc[t] = "idle"
    /\ CanAcquire(held, "devices")
    /\ \A r \in UsedBy(command_buffer_ids) : resources[r].exists
    /\ held' = [held EXCEPT ![t] = {"devices"}]
    /\ frame' = [frame EXCEPT ![t] =
                   [ids |-> command_buffer_ids,
                    pending_write_command_buffer |-> TakePending(pending_writes),
                    submit_index |-> SubmitIndex(submission_index),
                    calls |-> writes_log]]
    /\ pending_writes' = [pending_writes EXCEPT !.command_buffer = None]
    /\ temp_suspected' = ClearSuspected(temp_suspected)
    /\ submission_index' = SubmitIndex(submission_index)
    /\ writes_log' = <<>>
    /\ pc' = [pc EXCEPT ![t] = "submit_loop"]
    /\ UNCHANGED <<trackers, resources, active, hw_queue, staging, staging_count,
                   failed, uses, copy_owner, freed, reaped, skipped, hw_log,
                   track_log, map_count, write_hist>>
    /\ UNCHANGED callFrame

\* queue_submit, lines 192-331: under the guards of the storages and of the
\* tracker the command buffers are processed; the fence, the submission
ThreadSubmitLoop(t) ==
    /\ failed = "none"
    /\ pc[t] = "submit_loop"
    /\ \A lock \in Locks \ {"devices"} : CanAcquire(held, lock)
    /\ LET f == frame[t]
           fence == Len(hw_log) + 1
           copies == IF IsSome(f.pending_write_command_buffer)
                       THEN Copies(Unwrap(f.pending_write_command_buffer)) ELSE <<>>
       IN \E st \in {ProcessCommandBuffers(
                       [resources |-> resources, trackers |-> trackers,
                        temp_suspected |-> temp_suspected,
                        swap_chain |-> swap_chain,
                        signal |-> <<>>, raws |-> <<>>, failed |-> "none",
                        warned |-> {}],
                       f.ids, f.submit_index)} :
          /\ temp_suspected' = st.temp_suspected
          /\ trackers' = st.trackers
          /\ swap_chain' = st.swap_chain
          /\ resources' = st.resources
          /\ failed' = st.failed
          /\ IF st.failed # "none"
               THEN UNCHANGED <<hw_queue, hw_log, uses, copy_owner, pc, frame>>
               ELSE \E submission \in {Submission(f.pending_write_command_buffer,
                                                  st.raws, st.signal)} :
                    /\ hw_queue' = Append(hw_queue,
                          [fence |-> fence,
                           writes |-> f.pending_write_command_buffer,
                           signal_semaphores |-> submission.signal_semaphores,
                           calls |-> f.calls])
                    /\ hw_log' = Append(hw_log, fence)
                    /\ uses' = [r \in Resources |->
                                  IF r \in UsedBy(f.ids)
                                     \/ \E i \in DOMAIN copies : copies[i].dst = r
                                    THEN uses[r] \cup {f.submit_index} ELSE uses[r]]
                    /\ copy_owner' = [s \in DOMAIN copy_owner \cup
                                            {copies[i].src : i \in DOMAIN copies} |->
                                        IF s \in DOMAIN copy_owner THEN copy_owner[s]
                                        ELSE f.submit_index]
                    /\ frame' = [frame EXCEPT ![t] = @ @@ [fence |-> fence]]
                    /\ pc' = [pc EXCEPT ![t] = "submit_maintain"]
    /\ UNCHANGED <<submission_index, pending_writes, active, staging, staging_count,
                   writes_log, freed, reaped, skipped, track_log, map_count,
                   write_hist, held, signaled, done_fences, mem, mem_direct, to_fire,
                   hw_state, last_submit, disposed>>

\* queue_submit, line 333: the maintenance pass; its callbacks are a local
ThreadSubmitMaintain(t) ==
    /\ failed = "none"
    /\ pc[t] = "submit_maintain"
    /\ \E lt \in {maintain(active, resources, staging, freed, reaped, signaled)} :
          /\ active' = lt.active
          /\ resources' = lt.resources
          /\ staging' = lt.staging
          /\ freed' = lt.freed
          /\ reaped' = lt.reaped
          /\ skipped' = skipped \cup LeftSignaled(lt.active, signaled)
          /\ map_count' = Collected(map_count, lt.ready)
          /\ frame' = [frame EXCEPT ![t] = @ @@ [callbacks |-> lt.ready]]
    /\ pc' = [pc EXCEPT ![t] = "submit_track"]
    /\ UNCHANGED <<submission_index, pending_writes, temp_suspected, trackers,
                   hw_queue, staging_count, failed, writes_log, uses, copy_owner,
                   hw_log, track_log, write_hist, held>>
    /\ UNCHANGED callFrame

\* queue_submit, lines 334-348: the record is tracked with the temp buffers
\* drained from pending_writes; the block ends and its guards are dropped
ThreadSubmitTrack(t) ==
    /\ failed = "none"
    /\ pc[t] = "submit_track"
    /\ active' = track_submission(active, frame[t].submit_index, frame[t].fence,
                                  temp_suspected, DrainTempBuffers(pending_writes))
    /\ pending_writes' = [pending_writes EXCEPT !.temp_buffers = <<>>]
    /\ track_log' = Append(track_log, frame[t].submit_index)
    /\ held' = [held EXCEPT ![t] = GuardsAfterBlock(@)]
    /\ pc' = [pc EXCEPT ![t] = "submit_fire"]
    /\ UNCHANGED <<submission_index, temp_suspected, trackers, resources, hw_queue,
                   staging, staging_count, failed, writes_log, uses, copy_owner,
                   freed, reaped, skipped, hw_log, map_count, write_hist, frame>>
    /\ UNCHANGED callFrame

\* queue_submit, line 350: fire_map_callbacks(callbacks)
ThreadFire(t) ==
    /\ failed = "none"
    /\ pc[t] = "submit_fire"
    /\ map_count' = [b \in BufferIds |->
                       [map_count[b] EXCEPT !.fired =
                           @ + Cardinality({i \in DOMAIN frame[t].callbacks :
                                               frame[t].callbacks[i] = b})]]
    /\ pc' = [pc EXCEPT ![t] = "idle"]
    /\ frame' = [frame EXCEPT ![t] = <<>>]
    /\ UNCHANGED <<submission_index, pending_writes, temp_suspected, trackers,
                   resources, active, hw_queue, staging, staging_count, failed,
                   writes_log, uses, copy_owner, freed, reaped, skipped, hw_log,
                   track_log, write_hist, held>>
    /\ UNCHANGED callFrame

\* the command buffer lists the threads submit
ThreadSubmitLists == {<<>>, <<Cmd({1}, "COPY_DST", "STORAGE")>>}

NextThreads ==
    \/ /\ staging_count < MaxWrites
       /\ \E t \in Threads : ThreadWriteUse(t, 1, 0, <<1>>)
    \/ \E t \in Threads : ThreadWriteTake(t)
    \/ \E t \in Threads : ThreadWriteRecord(t)
    \/ /\ submission_index < MaxSubmit
       /\ \E t \in Threads : \E ids \in ThreadSubmitLists : ThreadSubmitTake(t, ids)
    \/ \E t \in Threads : ThreadSubmitLoop(t)
    \/ \E t \in Threads : ThreadSubmitMaintain(t)
    \/ \E t \in Threads : ThreadSubmitTrack(t)
    \/ \E t \in Threads : ThreadFire(t)
    \/ HwExecute
    \/ \E f \in done_fences : FenceSignal(f)
    \/ \E b \in BufferIds : BufferMapAsync(b)

\* two threads call queue_write_buffer and queue_submit on one device
SpecThreads == Init /\ [][NextThreads]_vars

\* ------------------------------------------------------------------ properties
\* the fence created by the call that was given submission index i
FenceOf(i) == hw_log[CHOOSE k \in DOMAIN track_log : track_log[k] = i]

\* the staging buffers whose copy commands submission i carries
CopiesOf(i) == {s \in DOMAIN copy_owner : copy_owner[s] = i}

\* C1: submission records are reaped in submission order whatever the order in
\* which fences signal: the records reaped are the first records tracked, each
\* with its fence signaled and its temp buffers freed, and the queue holds the
\* remaining records in the order of their submission; so no record is reaped
\* while an earlier record's fence is unsignaled.
ReapedInSubmissionOrder ==
    /\ Len(reaped) <= Len(track_log)
    /\ \A k \in DOMAIN reaped :
          /\ reaped[k] = track_log[k]
          /\ hw_log[k] \in signaled
          /\ CopiesOf(reaped[k]) \subseteq freed
    /\ Len(active) = Len(track_log) - Len(reaped)
    /\ \A k \in DOMAIN active : active[k].index = track_log[Len(reaped) + k]

\* C1 witness: a record whose fence was signaled while an earlier fence was
\* not, and which a maintenance pass therefore left queued, has been reaped.
ReapedAfterWaitingForEarlier == \E i \in skipped : i \in Range(reaped)

\* C2: a staging buffer is freed only when the fence of the submission that
\* carries its copy command is signaled; the temp buffers of each submission
\* record are exactly the staging buffers whose copies that submission's
\* pending-writes command buffer carries, under that submission's fence; and no
\* copy still queued on the hardware reads a freed staging buffer.
StagingOutlivesItsSubmission ==
    /\ \A s \in freed :
          s \in DOMAIN copy_owner /\ FenceOf(copy_owner[s]) \in signaled
    /\ \A k \in DOMAIN active :
          /\ Range(active[k].temp_buffers) = CopiesOf(active[k].index)
          /\ active[k].fence = FenceOf(active[k].index)
    /\ \A k \in DOMAIN hw_queue :
          IsSome(hw_queue[k].writes) =>
             \A c \in Range(Copies(Unwrap(hw_queue[k].writes))) : c.src \in DOMAIN staging

\* C2 witness: a staging buffer has been freed.
StagingFreed == freed # {}

\* C3 (state part): last_use of a resource is at least the index of every
\* submission that referenced it
LastUseCoversUses ==
    \A r \in Resources : \A i \in uses[r] : resources[r].last_use >= i

\* C3: over every step last_use of each resource does not decrease, and in
\* every state it is at least the index of each submission that referenced the
\* resource through a command buffer or as the destination of a carried write.
LastUseMonotone ==
    /\ []LastUseCoversUses
    /\ [][\A r \in Resources : resources'[r].last_use >= resources[r].last_use]_vars

\* C3 witness: buffer 1 was referenced by two submissions, the second time as
\* the destination of a deferred write.
ReferencedTwice ==
    /\ uses[1] = {1, 2}
    /\ resources[1].last_use = 2
    /\ copy_owner # <<>>

\* what the copy commands of a pending-writes command buffer write, read from
\* the staging buffers they name
Carried(cmds) ==
    LET cs == Copies(cmds)
    IN [i \in DOMAIN cs |->
          [dst |-> cs[i].dst, offset |-> cs[i].region.dst,
           data |-> IF cs[i].src \in DOMAIN staging
                      THEN SubSeq(staging[cs[i].src], cs[i].region.src + 1,
                                  cs[i].region.src + cs[i].region.size)
                      ELSE <<>>]]

CarriedBy(cb) == IF IsSome(cb) THEN Carried(Unwrap(cb)) ELSE <<>>

\* C4: the writes made since the previous queue_submit call are carried by the
\* next submit, each once and in the order of the calls (the open command
\* buffer holds them until then, a submission on the hardware queue holds
\* exactly the writes made before its call), and the contents of the buffers
\* equal in every state, also after any number of maintenance passes, what
\* applying each completed submission's writes directly at [offset, offset+len)
\* gives.
WritesLandAsDirect ==
    /\ mem = mem_direct
    /\ \A k \in DOMAIN hw_queue : CarriedBy(hw_queue[k].writes) = hw_queue[k].calls
    /\ failed = "none" => CarriedBy(pending_writes.command_buffer) = writes_log

\* C4 witness: three one-byte writes, one submit of no command buffers, the
\* submission complete: every byte of buffer 1 was written.
ThreeDisjointWritesLanded ==
    /\ staging_count = 3
    /\ \A s \in 1..3 : s \in DOMAIN staging /\ Len(staging[s]) = 1
    /\ \A o \in Offsets : mem[1][o] # 0
    /\ last_submit.ids = <<>>
    /\ submission_index = 1
    /\ signaled = {1}

SubmitFailedEarly ==
    /\ ~last_submit.submitted
    /\ failed = "pending_mapping"
    /\ last_submit.index \notin Range(track_log)
    /\ \A k \in DOMAIN active : active[k].index # last_submit.index
    /\ Len(hw_log) = Len(track_log)
    /\ Len(hw_log) = last_submit.index - 1

ResourceBarriers(bars) == {b \in Range(bars) : b.kind = "resource"}

\* the barriers recorded in a pending-writes command buffer
WriteCommandBarriers(cmds) ==
    UNION {ResourceBarriers(c.barriers) :
             c \in {d \in Range(cmds) : d.op = "pipeline_barrier"}}

\* every resource barrier of the open pending-writes command buffer and of the
\* most recent submission
RecordedBarriers ==
    (IF IsSome(pending_writes.command_buffer)
       THEN WriteCommandBarriers(Unwrap(pending_writes.command_buffer)) ELSE {})
    \cup UNION {IF c.kind = "writes" THEN WriteCommandBarriers(c.cmds)
                ELSE IF c.kind = "transit" THEN ResourceBarriers(c.barriers)
                ELSE {} : c \in Range(last_submit.command_buffers)}

\* the usage states the hardware will see once the open pending-writes command
\* buffer has run after everything submitted
AfterPending ==
    Replay([state |-> hw_state, ok |-> TRUE],
           IF IsSome(pending_writes.command_buffer)
             THEN <<[kind |-> "writes", cmds |-> Unwrap(pending_writes.command_buffer)]>>
             ELSE <<>>)

\* the barrier command of every write holds the staging buffer's barrier first
\* and at most one more barrier
StagingBarrierFirst(cmds) ==
    \A c \in {d \in Range(cmds) : d.op = "pipeline_barrier"} :
        /\ c.barriers[1].kind = "staging"
        /\ Len(c.barriers) <= 2

\* the barriers recorded so far: none goes from a state to itself, each starts
\* from the state the commands recorded before it leave the resource in, the
\* tracked state is the one they end in; between two command buffers of one
\* call no barrier is recorded for a resource the first left in the state the
\* second expects
BarriersOnlyOnChange ==
    /\ \A b \in RecordedBarriers : b.from # b.to
    /\ last_submit.sync_ok
    /\ failed = "none" => (AfterPending.ok /\ AfterPending.state = trackers)
    /\ IsSome(pending_writes.command_buffer) =>
          StagingBarrierFirst(Unwrap(pending_writes.command_buffer))
    /\ LET cbs == last_submit.command_buffers
       IN \A k \in DOMAIN cbs :
            (k + 3 <= Len(cbs) /\ cbs[k].kind = "body" /\ cbs[k + 1].kind = "transit"
             /\ cbs[k + 2].kind = "body" /\ cbs[k].of.last = cbs[k + 2].of.first)
            => \A b \in ResourceBarriers(cbs[k + 1].barriers) :
                  b.target \notin cbs[k].of.used

\* a submit step records no barrier, in front of its first command buffer, for
\* a resource the device already tracks in the state that command buffer
\* expects, and records one from the tracked state otherwise
FirstTransitOnlyOnChange ==
    (last_submit'.index # last_submit.index /\ last_submit'.submitted
     /\ last_submit'.ids # <<>>) =>
        LET cbs == last_submit'.command_buffers
            off == IF last_submit'.had_pending THEN 1 ELSE 0
            first == last_submit'.ids[1]
        IN \A r \in first.used :
              IF trackers[r] = first.first
                THEN \A x \in ResourceBarriers(cbs[off + 1].barriers) : x.target # r
                ELSE \E x \in ResourceBarriers(cbs[off + 1].barriers) :
                        x.target = r /\ x.from = trackers[r] /\ x.to = first.first

\* C7: a barrier is recorded for a resource only when the state the device
\* tracks differs from the state requested, and the tracked state is then the
\* requested one; so the transition command buffer in front of a command
\* buffer holds no barrier for a resource that the command buffer processed
\* before it (in the same call or an earlier one) left in the state this one
\* expects, and a write to a destination tracked as COPY_DST records the
\* staging buffer's barrier alone.
BarrierMinimality ==
    []BarriersOnlyOnChange /\ [][FirstTransitOnlyOnChange]_vars

\* C7 witness: two command buffers using buffer 1 were submitted in one call,
\* the second expecting the state the first left, with no barrier between
\* them; and a second write to buffer 1 recorded the staging barrier alone.
NoBarrierBetween ==
    /\ last_submit.submitted
    /\ Len(last_submit.ids) = 2
    /\ 1 \in last_submit.ids[1].used \cap last_submit.ids[2].used
    /\ last_submit.ids[1].last = last_submit.ids[2].first
    /\ last_submit.command_buffers[Len(last_submit.command_buffers) - 1].barriers = <<>>
    /\ IsSome(pending_writes.command_buffer)
    /\ Len(Unwrap(pending_writes.command_buffer)) = 4
    /\ Len(Unwrap(pending_writes.command_buffer)[1].barriers) = 2
    /\ Len(Unwrap(pending_writes.command_buffer)[3].barriers) = 1

\* the buffers that are the destination of a copy recorded in pending writes pw
PendingDestinations(pw) ==
    IF IsSome(pw.command_buffer)
      THEN {c.dst : c \in Range(Copies(Unwrap(pw.command_buffer)))} ELSE {}

\* the bookkeeping of mapping requests: a callback is collected at most once
\* per request and fired at most once per collection
CallbacksAccounted ==
    \A b \in BufferIds :
        /\ map_count[b].fired <= map_count[b].collected
        /\ map_count[b].collected <= map_count[b].requested
        /\ map_count[b].requested - map_count[b].collected \in {0, 1}
        /\ resources[b].map_state = "Waiting" =>
              map_count[b].requested = map_count[b].collected + 1
        /\ map_count[b].collected - map_count[b].fired =
              Cardinality({k \in DOMAIN to_fire : to_fire[k] = b})

\* a step that collects the callback of buffer b does so when every submission
\* that uses b has been reaped behind a signaled fence and no pending write to
\* b is waiting for a submission
CollectedAfterCompletion ==
    \A b \in BufferIds :
        map_count'[b].collected > map_count[b].collected =>
            /\ map_count'[b].collected = map_count[b].collected + 1
            /\ \A i \in uses'[b] :
                  /\ i \in Range(reaped')
                  /\ \E k \in DOMAIN track_log' :
                        track_log'[k] = i /\ hw_log'[k] \in signaled'
            /\ b \notin PendingDestinations(pending_writes')
            /\ resources'[b].last_use <= submission_index'

\* C8: the callback of a mapping request fires exactly once per request, and
\* only after every submission that uses the buffer (pending writes to it
\* included) has completed.
CallbacksFireOnceAfterCompletion ==
    []CallbacksAccounted /\ [][CollectedAfterCompletion]_vars

\* C8 witness: the callback of a buffer that a submitted command buffer and a
\* submitted pending write used has fired.
CallbackFiredForUsedBuffer ==
    \E b \in BufferIds :
        /\ map_count[b].fired = 1
        /\ to_fire = <<>>
        /\ Cardinality(uses[b]) = 2

\* the indices submitted to the hardware and tracked, in order, agree and grow
IndicesInOrder ==
    /\ Len(hw_log) = Len(track_log)
    /\ \A k \in DOMAIN track_log : k > 1 => track_log[k - 1] < track_log[k]
    /\ \A k \in DOMAIN track_log : track_log[k] <= submission_index
    /\ \A k \in DOMAIN active : k > 1 => active[k - 1].index < active[k].index
    /\ \A j, k \in DOMAIN hw_log : j # k => hw_log[j] # hw_log[k]
    /\ \A k \in DOMAIN active :
          \E j \in DOMAIN track_log :
              track_log[j] = active[k].index /\ hw_log[j] = active[k].fence
    /\ failed = "none" => Len(hw_log) = submission_index

\* a step that takes a submission index takes the next one, and the call that
\* took it, when it returns, has made one hardware submission with a fence no
\* earlier submission used and one tracked record, both under that index
OneSubmissionPerIndex ==
    submission_index' # submission_index =>
        /\ submission_index' = submission_index + 1
        /\ last_submit'.index = submission_index'
        /\ failed' = "none" =>
              /\ Len(hw_log') = Len(hw_log) + 1
              /\ SubSeq(hw_log', 1, Len(hw_log)) = hw_log
              /\ hw_log'[Len(hw_log')] \notin Range(hw_log)
              /\ hw_queue'[Len(hw_queue')].fence = hw_log'[Len(hw_log')]
              /\ track_log' = Append(track_log, submission_index')
              /\ Len(hw_queue') = Len(hw_queue) + 1
              /\ Cardinality({k \in DOMAIN active' :
                                active'[k].index = submission_index'}) = 1

\* C9: each submit call takes exactly one submission index, the indices are
\* strictly increasing, each call makes exactly one hardware submission with
\* a fresh fence (also with no command buffers and no pending writes), and
\* the life tracker's records are in index order.
OneIndexOneSubmission ==
    []IndicesInOrder /\ [][OneSubmissionPerIndex]_vars

\* C9 witness: the second submit call had no command buffers and no pending
\* writes and made a hardware submission.
EmptySubmitSubmitted ==
    /\ last_submit.submitted
    /\ last_submit.ids = <<>>
    /\ ~last_submit.had_pending
    /\ Len(hw_log) = 2
    /\ Len(last_submit.command_buffers) = 0

\* C10: the hardware submission of a call holds the pending-writes command
\* buffer first, when there is one, and then, for each submitted command
\* buffer in the order given, its transition command buffer followed by its
\* body.
SubmissionOrder ==
    last_submit.submitted =>
        LET cbs == last_submit.command_buffers
            off == IF last_submit.had_pending THEN 1 ELSE 0
        IN /\ Len(cbs) = off + 2 * Len(last_submit.ids)
           /\ last_submit.had_pending => cbs[1].kind = "writes"
           /\ \A k \in DOMAIN cbs : cbs[k].kind = "writes" => k = 1 /\ off = 1
           /\ \A k \in DOMAIN last_submit.ids :
                /\ cbs[off + 2 * k - 1].kind = "transit"
                /\ cbs[off + 2 * k].kind = "body"
                /\ cbs[off + 2 * k].of = last_submit.ids[k]

\* C10 witness: a call with pending writes and two different command buffers
\* was submitted.
PendingThenTwoSubmitted ==
    /\ last_submit.submitted
    /\ last_submit.had_pending
    /\ Len(last_submit.ids) = 2
    /\ last_submit.ids[1] # last_submit.ids[2]

\* C11 as claimed: the maintenance pass of a queue_submit call is given a
\* queue that holds the record of the submission the call has just issued, at
\* its tail.
MaintainSeesOwnRecord ==
    last_submit.submitted =>
        /\ last_submit.maintained # <<>>
        /\ last_submit.maintained[Len(last_submit.maintained)] = last_submit.index

\* what the code does: the maintenance pass of a queue_submit call runs on the
\* records of the earlier calls only; the call's own record is tracked after it
MaintainBeforeTrack ==
    last_submit.submitted =>
        \A k \in DOMAIN last_submit.maintained :
            last_submit.maintained[k] < last_submit.index

\* C12 as claimed: the write call made at device index n stores n + 1 in the
\* life guard of the staging buffer it creates.
StagingGuardIsNext ==
    \A k \in DOMAIN write_hist :
        /\ write_hist[k].use_at.object = <<"staging", write_hist[k].src>>
        /\ write_hist[k].use_at.index = write_hist[k].at + 1

\* C12 amended: the write call made at device index n stores n + 1 in the life
\* guard of the destination buffer; the staging buffer it creates has no life
\* guard: it is kept in pending_writes.temp_buffers while the device index is
\* n, and the submission that carries its copy is submission n + 1.
DestinationGuardIsNext ==
    \A k \in DOMAIN write_hist :
        /\ write_hist[k].use_at = [object |-> <<"buffer", write_hist[k].dst>>,
                                   index |-> write_hist[k].at + 1]
        /\ resources[write_hist[k].dst].last_use >= write_hist[k].at + 1
        /\ write_hist[k].src \in DOMAIN copy_owner =>
              copy_owner[write_hist[k].src] = write_hist[k].at + 1
        /\ (write_hist[k].src \notin DOMAIN copy_owner /\ failed = "none") =>
              /\ write_hist[k].src \in Range(pending_writes.temp_buffers)
              /\ write_hist[k].at = submission_index
              /\ \A j \in DOMAIN active :
                    write_hist[k].src \notin Range(active[j].temp_buffers)

\* C12 witness: a write made at device index 1 was carried by submission 2,
\* while another write waits for the next submission.
WriteCarriedByNext ==
    /\ Len(write_hist) = 2
    /\ write_hist[1].at = 1
    /\ 1 \in DOMAIN copy_owner
    /\ 2 \in Range(pending_writes.temp_buffers)

\* the suspected lists: the list of the most recent call that returned holds
\* the resources its command buffers referenced while dropped, that list is
\* what its record was given, and every resource in a queued record's list
\* was referenced, dropped, by the submission of that record
SuspectedAreDroppedReferences ==
    /\ last_submit.submitted =>
          /\ Range(last_submit.suspected) = last_submit.refs_dropped
          /\ \A k \in DOMAIN active :
                active[k].index = last_submit.index =>
                    active[k].suspected = last_submit.suspected
    /\ \A k \in DOMAIN active :
          \A r \in Range(active[k].suspected) :
              active[k].index \in uses[r] /\ ~resources[r].ref

\* a queue_submit call that returns leaves every resource its command buffers
\* reference with last_use equal to the call's index, and hands the life
\* tracker a record whose suspected resources are the referenced resources
\* that had no outstanding reference
SubmitSuspectsDropped ==
    (last_submit'.index # last_submit.index /\ last_submit'.submitted) =>
        /\ \A r \in UsedBy(last_submit'.ids) :
              resources'[r].last_use = last_submit'.index
        /\ active' # <<>>
        /\ active'[Len(active')].index = last_submit'.index
        /\ Range(active'[Len(active')].suspected) =
              {r \in UsedBy(last_submit'.ids) : ~resources[r].ref}
        /\ temp_suspected' = active'[Len(active')].suspected

\* C13: the suspected resources handed to the life tracker by a queue_submit
\* call are exactly the resources, of every category, that the call's command
\* buffers reference and that had no outstanding reference when their life
\* guard was advanced; nothing is carried over from an earlier submission,
\* and every resource the command buffers reference has last_use equal to
\* the new index afterwards.
SuspectedExactlyDropped ==
    []SuspectedAreDroppedReferences /\ [][SubmitSuspectsDropped]_vars

\* C13 witness: the first submission suspected the dropped buffer 2, and the
\* second, which references the dropped texture 3 alone, suspects texture 3
\* and not buffer 2, while the first record is still queued.
SecondSuspectsOnlyItsOwn ==
    /\ last_submit.submitted
    /\ last_submit.index = 2
    /\ Range(last_submit.suspected) = {3}
    /\ Len(active) = 2
    /\ 2 \in Range(active[1].suspected)
    /\ Range(active[2].suspected) = {3}

\* whether no element of a list is repeated
NoRepeats(q) == \A i, j \in DOMAIN q : q[i] = q[j] => i = j

\* C14 as claimed: a resource id appears at most once among the suspected
\* resources of one submission record, also when a dropped resource is
\* referenced by two or more command buffers of the call.
SuspectedIsSet ==
    \A k \in DOMAIN active : NoRepeats(active[k].suspected)

\* what the code does: a dropped resource is listed once for every command
\* buffer of the call that references it, and not more often
SuspectedOncePerCommandBuffer ==
    last_submit.submitted =>
        \A r \in Resources :
            Cardinality({i \in DOMAIN last_submit.suspected :
                            last_submit.suspected[i] = r}) =
            IF r \in last_submit.refs_dropped
              THEN Cardinality({k \in DOMAIN last_submit.ids :
                                   r \in last_submit.ids[k].used})
              ELSE 0

\* the framebuffers of the command buffers of `ids` that render to swap chain
\* sc_id, in the order of the command buffers
FramesFor(ids, sc_id) ==
    LET on == SelectSeq(ids, LAMBDA c : IsSome(c.used_swap_chain)
                                         /\ Unwrap(c.used_swap_chain)[1] = sc_id)
    IN [k \in DOMAIN on |-> Unwrap(on[k].used_swap_chain)[2]]

\* a queue_submit call that returns signals the semaphore of a swap chain once
\* if its command buffers render to it and it had no acquired framebuffers
\* before the call, and not at all otherwise; the framebuffers of the command
\* buffers that render to it are appended to its list, in order
SignalsFreshSwapChains ==
    (last_submit'.index # last_submit.index /\ last_submit'.submitted) =>
        \A sc_id \in SwapChainIds :
            LET frames == FramesFor(last_submit'.ids, sc_id)
                signals == {k \in DOMAIN last_submit'.signal_semaphores :
                               last_submit'.signal_semaphores[k] = sc_id}
            IN /\ Cardinality(signals) =
                     IF frames # <<>> /\ swap_chain[sc_id].acquired_framebuffers = <<>>
                       THEN 1 ELSE 0
               /\ swap_chain'[sc_id].acquired_framebuffers =
                     swap_chain[sc_id].acquired_framebuffers \o frames
               /\ hw_queue'[Len(hw_queue')].signal_semaphores =
                     last_submit'.signal_semaphores

\* C15: a swap chain's ready semaphore is in the signal list of a submission
\* if and only if a command buffer of the call references the swap chain and
\* the swap chain had no acquired framebuffers when the first such command
\* buffer was processed; it is there at most once, whatever the number of
\* command buffers that reference the swap chain, and the framebuffer of each
\* referencing command buffer is appended to the swap chain's list.
SemaphoreIffFirstFrame ==
    [][SignalsFreshSwapChains]_vars

\* C15 witness: the second submission rendered to swap chain sc2, fresh, and
\* to sc1, which held a framebuffer of the first submission: sc2 alone is
\* signaled, and sc1 holds two framebuffers.
SignaledOnceForFresh ==
    /\ last_submit.submitted
    /\ last_submit.index = 2
    /\ last_submit.signal_semaphores = <<"sc2">>
    /\ Len(FramesFor(last_submit.ids, "sc1")) = 1
    /\ Len(swap_chain["sc1"].acquired_framebuffers) = 2
    /\ Len(swap_chain["sc2"].acquired_framebuffers) = 1

\* a submission rendered twice to a fresh swap chain and signals it once
SignaledOnceForTwo ==
    /\ last_submit.submitted
    /\ last_submit.signal_semaphores = <<"sc1">>
    /\ swap_chain["sc1"].acquired_framebuffers = <<"fbo1", "fbo2">>
    /\ Len(FramesFor(last_submit.ids, "sc1")) = 2

\* a thread about to fire the callbacks of its submit holds no lock guard
FiringThreadHoldsNothing ==
    \A t \in Threads : pc[t] = "submit_fire" => held[t] = {}

\* callbacks are fired by a thread that is past the block of its submit and
\* holds no lock guard, so that a callback can take any lock of the call
FiredOutsideLocks ==
    (\E b \in BufferIds : map_count'[b].fired > map_count[b].fired) =>
        \E t \in Threads :
            /\ pc[t] = "submit_fire" /\ pc'[t] = "idle"
            /\ held[t] = {}
            /\ frame[t].callbacks # <<>>

\* C16: the callbacks the maintenance pass of a queue_submit call collects are
\* invoked after the device guard and every storage guard taken by the call
\* have been dropped: no callback runs while the submitting thread holds a
\* lock, so a callback that calls queue_write_buffer or queue_submit is not
\* kept out by a lock of the submitter.
CallbacksAfterLocks ==
    []FiringThreadHoldsNothing /\ [][FiredOutsideLocks]_vars

\* C16 witness: a thread is about to fire a callback its submit collected,
\* holding nothing, while the other thread is inside a call of its own.
FiringWhileOtherCalls ==
    \E t, u \in Threads :
        /\ t # u
        /\ pc[t] = "submit_fire"
        /\ frame[t].callbacks # <<>>
        /\ held[t] = {}
        /\ "devices" \in held[u]

\* the staging buffers of the copy commands the discarded command buffers hold
DiscardedCopies ==
    UNION {{c.src : c \in Range(Copies(disposed.discarded[k]))} :
             k \in DOMAIN disposed.discarded}

\* what was disposed of: the temp buffers were each freed once and destroyed
\* once, by dispose alone, and are gone; neither they nor the copies of the
\* discarded command buffer belong to a hardware submission or to a record
DisposedOnce ==
    /\ NoRepeats(disposed.freed)
    /\ disposed.destroyed = disposed.freed
    /\ Len(disposed.discarded) <= 1
    /\ Range(disposed.freed) \cap freed = {}
    /\ Range(disposed.freed) \cap DOMAIN staging = {}
    /\ DiscardedCopies = Range(disposed.freed)
    /\ DiscardedCopies \cap DOMAIN copy_owner = {}
    /\ \A k \in DOMAIN active :
          Range(active[k].temp_buffers) \cap Range(disposed.freed) = {}
    /\ failed = "disposed" =>
          (1..staging_count) \ Range(disposed.freed) = DOMAIN copy_owner

\* the step that tears the device down discards the open command buffer, if
\* any, frees and destroys every temp buffer held, submits nothing and tracks
\* no record
DisposeStep ==
    failed' = "disposed" /\ failed = "none" =>
        /\ disposed'.discarded = pending_writes.command_buffer
        /\ disposed'.freed = pending_writes.temp_buffers
        /\ UNCHANGED <<hw_queue, hw_log, active, track_log, submission_index>>

\* C17: PendingWrites::dispose returns the open command buffer, if any, to the
\* pool as discarded, never submitted to the hardware queue, and frees the
\* memory and destroys the handle of every temp buffer it holds, each exactly
\* once; no submission record is created for them.
DisposeDiscardsAndFrees ==
    []DisposedOnce /\ [][DisposeStep]_vars

\* C17 witness: a device with one write submitted and two writes pending was
\* torn down: one command buffer discarded, two temp buffers freed.
DisposedTwoPending ==
    /\ failed = "disposed"
    /\ Len(disposed.discarded) = 1
    /\ disposed.freed = <<2, 3>>
    /\ 1 \in DOMAIN copy_owner

\* the device guard belongs to one thread at a time, and a thread inside the
\* locked part of a call holds it
DeviceGuardExclusive ==
    /\ \A t, u \in Threads :
          ("devices" \in held[t] /\ "devices" \in held[u]) => t = u
    /\ \A t \in Threads :
          pc[t] \notin {"idle", "submit_fire"} => "devices" \in held[t]

\* every write belongs to one submission: the submission that carries its copy
\* command is the one its destination was marked with, a record that holds
\* its staging buffer is the record of that submission, and the staging buffer
\* is freed only when that record was reaped
WriteInOneSubmission ==
    \A k \in DOMAIN write_hist :
        LET s == write_hist[k].src
        IN /\ s \in DOMAIN copy_owner =>
                 copy_owner[s] = write_hist[k].use_at.index
           /\ \A j \in DOMAIN active :
                 s \in Range(active[j].temp_buffers) =>
                     s \in DOMAIN copy_owner /\ copy_owner[s] = active[j].index
           /\ s \in freed => s \in DOMAIN copy_owner /\ copy_owner[s] \in Range(reaped)

\* the record a submit tracks holds the staging buffers of exactly the copy
\* commands its hardware submission carries
TrackedWithItsCopies ==
    track_log' # track_log =>
        LET rec == active'[Len(active')]
        IN /\ rec.index = track_log'[Len(track_log')]
           /\ Range(rec.temp_buffers) =
                 {s \in DOMAIN copy_owner : copy_owner[s] = rec.index}
           /\ NoRepeats(rec.temp_buffers)

\* C18: with queue_write_buffer and queue_submit called from several threads,
\* each call runs inside the device-wide exclusive section, so every deferred
\* write lands wholly in one submission: its copy command, its staging buffer
\* and the last_use of its destination (device index + 1) belong to the same
\* submission index, whatever the interleaving.
WritesWholeUnderThreads ==
    [](DeviceGuardExclusive /\ WriteInOneSubmission) /\ [][TrackedWithItsCopies]_vars

\* C18 witness: the first write was carried by submission 1, whose thread
\* has yet to fire its callbacks, while the other thread is inside a second
\* write, marked with submission 2.
SecondWriteWhileFiring ==
    /\ Len(write_hist) = 2
    /\ copy_owner = <<1>>
    /\ track_log = <<1>>
    /\ write_hist[2].use_at.index = 2
    /\ \E t, u \in Threads :
          /\ pc[t] = "submit_fire"
          /\ pc[u] = "write_record"

\* the pending writes between calls: a command buffer is open exactly when
\* temp buffers are held, and it holds one copy command per temp buffer, from
\* that temp buffer, in the order of the writes
PendingWritesPaired ==
    failed = "none" =>
        /\ IsSome(pending_writes.command_buffer) <=> pending_writes.temp_buffers # <<>>
        /\ NoRepeats(pending_writes.temp_buffers)
        /\ IF IsSome(pending_writes.command_buffer)
             THEN LET cs == Copies(Unwrap(pending_writes.command_buffer))
                  IN /\ Len(cs) = Len(pending_writes.temp_buffers)
                     /\ \A k \in DOMAIN cs : cs[k].src = pending_writes.temp_buffers[k]
             ELSE TRUE

\* a write that returns opens a command buffer only if none was open, else
\* extends the open one, and appends one new staging buffer; a submit that
\* returns leaves no command buffer open and no temp buffer
CallsKeepPaired ==
    /\ (staging_count' # staging_count /\ failed' = "none") =>
          /\ Len(pending_writes'.temp_buffers) = Len(pending_writes.temp_buffers) + 1
          /\ pending_writes'.temp_buffers[Len(pending_writes'.temp_buffers)] = staging_count'
          /\ IsSome(pending_writes'.command_buffer)
          /\ IsSome(pending_writes.command_buffer) =>
                /\ Len(Unwrap(pending_writes'.command_buffer)) =
                      Len(Unwrap(pending_writes.command_buffer)) + 2
                /\ SubSeq(Unwrap(pending_writes'.command_buffer), 1,
                          Len(Unwrap(pending_writes.command_buffer))) =
                      Unwrap(pending_writes.command_buffer)
          /\ ~IsSome(pending_writes.command_buffer) =>
                Len(Unwrap(pending_writes'.command_buffer)) = 2
    /\ (submission_index' # submission_index /\ failed' = "none") =>
          pending_writes' = PendingWritesNew

\* C19: after every queue_write_buffer or queue_submit call that completes,
\* the pending-writes command buffer is open if and only if temp_buffers is
\* not empty: the first write after a submit opens one command buffer, later
\* writes reuse it and append one staging buffer each, and a submit that
\* completes leaves no command buffer open and no temp buffers.
PendingOpenIffTempBuffers ==
    []PendingWritesPaired /\ [][CallsKeepPaired]_vars

\* C19 witness: after a submit, two writes share one open command buffer that
\* holds their two copies, with two temp buffers.
TwoWritesOneCommandBuffer ==
    /\ failed = "none"
    /\ submission_index = 1
    /\ Len(pending_writes.temp_buffers) = 2
    /\ IsSome(pending_writes.command_buffer)
    /\ Len(Copies(Unwrap(pending_writes.command_buffer))) = 2

\* C20 as claimed: a queue_submit call that panics while processing its
\* command buffers leaves the submission state as before the call: the index
\* is not consumed, the pending command buffer is still held with its staging
\* buffers and carries the writes made, and no life guard was advanced.
FailedSubmitChangesNothing ==
    failed \in {"pending_mapping", "swap_chain_output_dropped"} =>
        /\ submission_index = Len(track_log)
        /\ IsSome(pending_writes.command_buffer) <=> pending_writes.temp_buffers # <<>>
        /\ CarriedBy(pending_writes.command_buffer) = writes_log
        /\ \A r \in Resources :
              resources[r].last_use = last_submit.index =>
                  \E k \in DOMAIN writes_log : writes_log[k].dst = r

\* what the code does: the panicking call has consumed its index and dropped
\* the pending command buffer it took, while the staging buffers stay in
\* temp_buffers
FailedSubmitConsumes ==
    failed \in {"pending_mapping", "swap_chain_output_dropped"} =>
        /\ submission_index = Len(track_log) + 1
        /\ last_submit.index = submission_index
        /\ ~IsSome(pending_writes.command_buffer)
        /\ Len(pending_writes.temp_buffers) = Len(writes_log)

====
